---------------------------- MODULE Spec2Model ----------------------------
(***************************************************************************)
(* A model of the binlog reader: BinlogFile::from_reader (the magic        *)
(* check), Event::parse (the 19-byte header and the body) and              *)
(* Event::parse_event_data_by_type_code (the FormatDescriptionEvent body). *)
(*                                                                         *)
(* Numbers.  TLC's integers are 32-bit signed, so a u32 is kept as a pair  *)
(* <<hi, lo>> of 16-bit limbs (value hi * 65536 + lo) and a u64 as four    *)
(* limbs, most significant first.  Bytes are 0..255.                       *)
(*                                                                         *)
(* A panic (a failed unwrap, a slice out of range, an arithmetic overflow  *)
(* in a build with overflow checks) is the result kind "Panic"; nothing    *)
(* runs after it.                                                          *)
(***************************************************************************)
EXTENDS Integers, Sequences, FiniteSets, TLC

VARIABLES
    overflow_checks,  \* the build: TRUE = debug (checked arithmetic), FALSE = release
    written,          \* the event records the writer of the file laid out
    source,           \* the bytes of the byte source
    pos,              \* the reader's position: bytes consumed so far
    binlog_file,      \* the result of BinlogFile::from_reader, kind "None" before it
    calls,            \* the Event::parse calls so far: position, offset, result
    event_data        \* the last parse_event_data_by_type_code call: <<>> or <<call>>

vars == <<overflow_checks, written, source, pos, binlog_file, calls, event_data>>

---------------------------------------------------------------------------
(* Bounds of the model *)

\* the longest stream of events a multi-event file holds
MaxEvents == 2

\* the most Event::parse calls a run makes
MaxCalls == 3

\* the longest per-type header-length table after the fixed part of a body
MaxTrailing == 1

---------------------------------------------------------------------------
(* Program constants *)

\* let mut event_header = [0u8; 19]; event_length - 19
HeaderLen == 19

\* data[server_version_beg..(server_version_beg + 50)]
ServerVersionLen == 50

\* let mut magic_number_bytes = [0u8; 4]
MagicLen == 4

\* [0xfe, 0x62, 0x69, 0x6e]
Magic == <<254, 98, 105, 110>>

\* event_set_start_offset: 4
EventSetStartOffset == 4

---------------------------------------------------------------------------
(* Little-endian reads (byteorder::ReadBytesExt on a Cursor) and u32 arithmetic *)

Min(a, b) == IF a <= b THEN a ELSE b

\* cursor.read_u16::<LittleEndian>() of the bytes at 0-based position p
read_u16(bytes, p) == bytes[p + 1] + 256 * bytes[p + 2]

\* a plausible slip: the four bytes read most significant first
read_u32_be(bytes, p) ==
    <<bytes[p + 2] + 256 * bytes[p + 1], bytes[p + 4] + 256 * bytes[p + 3]>>

\* cursor.read_u32::<LittleEndian>() of the bytes at 0-based position p
read_u32(bytes, p) == <<read_u16(bytes, p + 2), read_u16(bytes, p)>>

\* event_length - 19 overflows u32
SubOverflows(w, n) == w[1] = 0 /\ w[2] < n

\* event_length - 19 modulo 2^32 (what a build without overflow checks computes)
WrappingSub(w, n) ==
    IF w[2] >= n THEN <<w[1], w[2] - n>>
    ELSE IF w[1] > 0 THEN <<w[1] - 1, w[2] + 65536 - n>>
    ELSE <<65535, w[2] + 65536 - n>>

\* reader.read_exact(&mut buf) with buf.len() = n (a u32) succeeds iff n bytes remain
ReadExactOk(bytes, p, n) == n[1] = 0 /\ p + n[2] <= Len(bytes)

\* u64::from(u32)
U64FromU32(w) == <<0, 0, w[1], w[2]>>

---------------------------------------------------------------------------
(* TypeCode *)

\* the variants of enum TypeCode, in declaration order
TypeCode ==
    << "UnknownEvent", "StartEventV3", "QueryEvent", "StopEvent", "RotateEvent",
       "IntvarEvent", "LoadEvent", "SlaveEvent", "CreateFileEvent",
       "AppendBlockEvent", "ExecLoadEvent", "DeleteFileEvent", "NewLoadEvent",
       "RandEvent", "UserVarEvent", "FormatDescriptionEvent", "XidEvent",
       "BeginLoadQueryEvent", "ExecuteLoadQueryEvent", "TableMapEvent",
       "PreGaWriteRowsEvent", "PreGaUpdateRowsEvent", "PreGaDeleteRowsEvent",
       "WriteRowsEventV1", "UpdateRowsEventV1", "DeleteRowsEventV1",
       "IncidentEvent", "HeartbeatLogEvent", "IgnorableLogEvent",
       "RowsQueryLogEvent", "WriteRowsEventV2", "UpdateRowsEventV2",
       "DeleteRowsEventV2", "GtidLogEvent", "AnonymousGtidLogEvent",
       "PreviousGtidsLogEvent" >>

\* a plausible slip: the catch-all arm starts one code early
from_byte_short(b) ==
    IF b \in 0..34 THEN TypeCode[b + 1] ELSE "UnknownEvent"

\* TypeCode::from_byte: the match, arm by arm
from_byte(b) ==
    CASE b = 0 -> "UnknownEvent"
      [] b = 1 -> "StartEventV3"
      [] b = 2 -> "QueryEvent"
      [] b = 3 -> "StopEvent"
      [] b = 4 -> "RotateEvent"
      [] b = 5 -> "IntvarEvent"
      [] b = 6 -> "LoadEvent"
      [] b = 7 -> "SlaveEvent"
      [] b = 8 -> "CreateFileEvent"
      [] b = 9 -> "AppendBlockEvent"
      [] b = 10 -> "ExecLoadEvent"
      [] b = 11 -> "DeleteFileEvent"
      [] b = 12 -> "NewLoadEvent"
      [] b = 13 -> "RandEvent"
      [] b = 14 -> "UserVarEvent"
      [] b = 15 -> "FormatDescriptionEvent"
      [] b = 16 -> "XidEvent"
      [] b = 17 -> "BeginLoadQueryEvent"
      [] b = 18 -> "ExecuteLoadQueryEvent"
      [] b = 19 -> "TableMapEvent"
      [] b = 20 -> "PreGaWriteRowsEvent"
      [] b = 21 -> "PreGaUpdateRowsEvent"
      [] b = 22 -> "PreGaDeleteRowsEvent"
      [] b = 23 -> "WriteRowsEventV1"
      [] b = 24 -> "UpdateRowsEventV1"
      [] b = 25 -> "DeleteRowsEventV1"
      [] b = 26 -> "IncidentEvent"
      [] b = 27 -> "HeartbeatLogEvent"
      [] b = 28 -> "IgnorableLogEvent"
      [] b = 29 -> "RowsQueryLogEvent"
      [] b = 30 -> "WriteRowsEventV2"
      [] b = 31 -> "UpdateRowsEventV2"
      [] b = 32 -> "DeleteRowsEventV2"
      [] b = 33 -> "GtidLogEvent"
      [] b = 34 -> "AnonymousGtidLogEvent"
      [] b = 35 -> "PreviousGtidsLogEvent"
      [] OTHER -> "UnknownEvent"

---------------------------------------------------------------------------
(* BinlogFile::from_reader *)

\* a plausible slip: only the first byte of the magic is compared
from_reader_first_byte(bytes) ==
    IF Len(bytes) < MagicLen
    THEN [kind |-> "Io", magic_number_bytes |-> <<>>, event_set_start_offset |-> <<>>]
    ELSE IF SubSeq(bytes, 1, MagicLen)[1] # Magic[1]
    THEN [kind |-> "BadMagic", magic_number_bytes |-> SubSeq(bytes, 1, MagicLen),
          event_set_start_offset |-> <<>>]
    ELSE [kind |-> "Ok", magic_number_bytes |-> <<>>,
          event_set_start_offset |-> <<EventSetStartOffset>>]

\* from_reader on a reader at the start of `bytes`: read_exact of 4 bytes (`?` turns
\* a short read into BinlogFileError::Io), the comparison, the BinlogFile
from_reader(bytes) ==
    IF Len(bytes) < MagicLen
    THEN [kind |-> "Io", magic_number_bytes |-> <<>>, event_set_start_offset |-> <<>>]
    ELSE IF SubSeq(bytes, 1, MagicLen) # Magic
    THEN [kind |-> "BadMagic", magic_number_bytes |-> SubSeq(bytes, 1, MagicLen),
          event_set_start_offset |-> <<>>]
    ELSE [kind |-> "Ok", magic_number_bytes |-> <<>>,
          event_set_start_offset |-> <<EventSetStartOffset>>]

---------------------------------------------------------------------------
(* Event::parse *)

\* the result of Event::parse: Ok(event), Err(EventParseError::Io) or a panic
ParseResult(kind, event) == [kind |-> kind, event |-> event]

\* the header fields read by the cursor over the 19 bytes at position p
timestamp_at(bytes, p) == read_u32(bytes, p)

\* a plausible slip: the type byte taken from the start of the header
type_byte_at_start(bytes, p) == bytes[p + 1]

type_byte_at(bytes, p) == bytes[p + 5]
server_id_at(bytes, p) == read_u32(bytes, p + 5)
event_length_at(bytes, p) == read_u32(bytes, p + 9)
next_position_at(bytes, p) == read_u32(bytes, p + 13)
flags_at(bytes, p) == read_u16(bytes, p + 17)

\* let data_length: usize = (event_length - 19) as usize, in a build without
\* overflow checks
data_length(event_length) == WrappingSub(event_length, HeaderLen)

\* Event { timestamp, type_code, server_id, event_length, next_position, flags,
\* data, offset } built from the header at p and the body after it
EventAt(bytes, p, offset) ==
    [ timestamp |-> timestamp_at(bytes, p),
      type_code |-> from_byte(type_byte_at(bytes, p)),
      server_id |-> server_id_at(bytes, p),
      event_length |-> event_length_at(bytes, p),
      next_position |-> next_position_at(bytes, p),
      flags |-> flags_at(bytes, p),
      data |-> SubSeq(bytes, p + HeaderLen + 1,
                      p + HeaderLen + data_length(event_length_at(bytes, p))[2]),
      offset |-> offset ]

\* Event::parse(reader, offset) with the reader at position p of `bytes`, in a build
\* with (checks) or without overflow checks
parse(bytes, p, offset, checks) ==
    IF p + HeaderLen > Len(bytes)
    THEN ParseResult("Io", <<>>)                      \* return Err(e.into())
    ELSE IF checks /\ SubOverflows(event_length_at(bytes, p), HeaderLen)
    THEN ParseResult("Panic", <<>>)                   \* attempt to subtract with overflow
    ELSE IF ~ReadExactOk(bytes, p + HeaderLen, data_length(event_length_at(bytes, p)))
    THEN ParseResult("Panic", <<>>)                   \* read_exact(&mut data).unwrap()
    ELSE ParseResult("Ok", <<EventAt(bytes, p, offset)>>)

\* the reader's position after reader.read_exact of n bytes at p: past them on
\* success; after a short read the number of bytes consumed is unspecified, and
\* the readers of the standard library consume either nothing or all that is left
read_exact_positions(bytes, p, n) ==
    IF p + n <= Len(bytes) THEN {p + n} ELSE {p, Len(bytes)}

\* a plausible slip: the body is left unread, the reader stays after the header
positions_after_header_only(bytes, p, checks) ==
    IF p + HeaderLen > Len(bytes)
    THEN read_exact_positions(bytes, p, HeaderLen)
    ELSE {p + HeaderLen}

\* the reader's position after Event::parse
positions_after(bytes, p, checks) ==
    IF p + HeaderLen > Len(bytes)
    THEN read_exact_positions(bytes, p, HeaderLen)
    ELSE IF checks /\ SubOverflows(event_length_at(bytes, p), HeaderLen)
    THEN {p + HeaderLen}
    ELSE IF ~ReadExactOk(bytes, p + HeaderLen, data_length(event_length_at(bytes, p)))
    THEN {p + HeaderLen, Len(bytes)}
    ELSE {p + HeaderLen + data_length(event_length_at(bytes, p))[2]}

\* the accessors of Event
type_code(e) == e.type_code
timestamp(e) == e.timestamp
next_position(e) == U64FromU32(e.next_position)
data(e) == e.data
flags(e) == e.flags
event_length(e) == e.event_length
offset(e) == e.offset

---------------------------------------------------------------------------
(* Event::parse_event_data_by_type_code *)

\* a continuation byte of a UTF-8 sequence
IsCont(b) == b \in 128..191

\* std::str::from_utf8(bytes).is_ok(), from 1-based index i on: the well-formed
\* byte sequences of the Unicode standard, as the standard library validates them
RECURSIVE Utf8From(_, _)
Utf8From(bytes, i) ==
    LET n == Len(bytes)
        b0 == bytes[i]
        b1 == bytes[i + 1]
    IN  IF i > n THEN TRUE
        ELSE IF b0 < 128 THEN Utf8From(bytes, i + 1)
        ELSE IF b0 \in 194..223
        THEN i + 1 <= n /\ IsCont(b1) /\ Utf8From(bytes, i + 2)
        ELSE IF b0 \in 224..239
        THEN /\ i + 2 <= n
             /\ \/ b0 = 224 /\ b1 \in 160..191
                \/ b0 \in 225..236 /\ IsCont(b1)
                \/ b0 = 237 /\ b1 \in 128..159
                \/ b0 \in 238..239 /\ IsCont(b1)
             /\ IsCont(bytes[i + 2])
             /\ Utf8From(bytes, i + 3)
        ELSE IF b0 \in 240..244
        THEN /\ i + 3 <= n
             /\ \/ b0 = 240 /\ b1 \in 144..191
                \/ b0 \in 241..243 /\ IsCont(b1)
                \/ b0 = 244 /\ b1 \in 128..143
             /\ IsCont(bytes[i + 2])
             /\ IsCont(bytes[i + 3])
             /\ Utf8From(bytes, i + 4)
        ELSE FALSE

from_utf8_is_ok(bytes) == Utf8From(bytes, 1)

\* data[beg..beg + 50].iter().position(|&u| u == 0): the 0-based index of the first
\* NUL of the window, or -1 for None
NulPosition(window) ==
    IF \E i \in 1..Len(window) : window[i] = 0
    THEN (CHOOSE i \in 1..Len(window) :
              window[i] = 0 /\ \A j \in 1..(i - 1) : window[j] # 0) - 1
    ELSE -1

\* the result of parse_event_data_by_type_code: Ok(None), Ok(Some(..)), Err(..) or
\* a panic; `some` is <<>> for None and <<EventData>> for Some
DataResult(kind, some) == [kind |-> kind, some |-> some]

\* a plausible slip: the cursor moves past the string and its NUL, not past the
\* 50-byte field, before create_timestamp and common_header_len are read
FormatDescriptionEventData_after_nul(bytes) ==
    LET server_version_beg == 2
        window == SubSeq(bytes, server_version_beg + 1,
                         server_version_beg + ServerVersionLen)
        server_version_end == server_version_beg + NulPosition(window)
    IN  [ binlog_version |-> read_u16(bytes, 0),
          server_version |-> SubSeq(bytes, server_version_beg + 1, server_version_end),
          create_timestamp |-> read_u32(bytes, server_version_end + 1),
          common_header_len |-> bytes[server_version_end + 1 + 4 + 1] ]

\* EventData::FormatDescriptionEvent { .. }
FormatDescriptionEventData(bytes) ==
    LET server_version_beg == 2
        window == SubSeq(bytes, server_version_beg + 1,
                         server_version_beg + ServerVersionLen)
        server_version_end == server_version_beg + NulPosition(window)
    IN  [ binlog_version |-> read_u16(bytes, 0),
          server_version |-> SubSeq(bytes, server_version_beg + 1, server_version_end),
          create_timestamp |-> read_u32(bytes, server_version_beg + ServerVersionLen),
          common_header_len |-> bytes[server_version_beg + ServerVersionLen + 4 + 1] ]

\* the FormatDescriptionEvent arm, statement by statement; every failure in it is
\* an unwrap of None or Err, or a slice out of range: a panic
parse_format_description(bytes) ==
    LET server_version_beg == 2
        window == SubSeq(bytes, server_version_beg + 1,
                         server_version_beg + ServerVersionLen)
    IN  IF Len(bytes) < 2
        THEN DataResult("Panic", <<>>)       \* read_u16().unwrap()
        ELSE IF server_version_beg + ServerVersionLen > Len(bytes)
        THEN DataResult("Panic", <<>>)       \* data[beg..beg + 50] out of range
        ELSE IF NulPosition(window) = -1
        THEN DataResult("Panic", <<>>)       \* position(..).unwrap()
        ELSE IF ~from_utf8_is_ok(SubSeq(window, 1, NulPosition(window)))
        THEN DataResult("Panic", <<>>)       \* from_utf8(..).unwrap()
        ELSE IF server_version_beg + ServerVersionLen + 4 > Len(bytes)
        THEN DataResult("Panic", <<>>)       \* read_u32().unwrap()
        ELSE IF server_version_beg + ServerVersionLen + 4 + 1 > Len(bytes)
        THEN DataResult("Panic", <<>>)       \* read_u8().unwrap()
        ELSE DataResult("Ok", <<FormatDescriptionEventData(bytes)>>)

\* a plausible slip: StartEventV3, whose body starts alike, shares the arm
parse_event_data_by_type_code_v3(tc, bytes) ==
    IF tc \in {"FormatDescriptionEvent", "StartEventV3"}
    THEN parse_format_description(bytes)
    ELSE DataResult("Ok", <<>>)

\* parse_event_data_by_type_code(type_code, data): the match on the type code
parse_event_data_by_type_code(tc, bytes) ==
    IF tc = "FormatDescriptionEvent"
    THEN parse_format_description(bytes)
    ELSE DataResult("Ok", <<>>)

---------------------------------------------------------------------------
(* The files the reader is run on: what a writer lays out, bit-exact *)

Repeat(b, n) == [i \in 1..n |-> b]

Take(s, n) == SubSeq(s, 1, Min(n, Len(s)))

LE16(v) == <<v % 256, v \div 256>>

LE32(w) == LE16(w[2]) \o LE16(w[1])

\* a body: u16 binlog_version, the 50-byte field (the string, a NUL, filler), u32
\* create_timestamp, u8 common_header_len, the trailing table; cut to `keep` bytes
EncodeBody(b) ==
    Take(LE16(b.binlog_version)
           \o Take(b.server_version \o <<0>> \o Repeat(b.fill, ServerVersionLen),
                   ServerVersionLen)
           \o LE32(b.create_timestamp)
           \o <<b.common_header_len>>
           \o b.trailing,
         b.keep)

\* an event: the 19-byte header, then the body
EncodeEvent(e) ==
    LE32(e.timestamp) \o <<e.type_byte>> \o LE32(e.server_id) \o LE32(e.event_length)
        \o LE32(e.next_position) \o LE16(e.flags) \o EncodeBody(e.body)

RECURSIVE EncodeAll(_)
EncodeAll(es) ==
    IF es = <<>> THEN <<>> ELSE EncodeEvent(Head(es)) \o EncodeAll(Tail(es))

Body(v, sv, fill, ts, chl, tr, keep) ==
    [ binlog_version |-> v, server_version |-> sv, fill |-> fill,
      create_timestamp |-> ts, common_header_len |-> chl, trailing |-> tr,
      keep |-> keep ]

FixedBodyLen == 2 + ServerVersionLen + 4 + 1

\* "5.7.26-log"
Version5726 == <<53, 46, 55, 46, 50, 54, 45, 108, 111, 103>>

\* strings that are UTF-8: empty, ASCII, a 2-byte and a 4-byte sequence, and one
\* that fills the field up to its last byte, which holds the NUL
ValidStrings ==
    { <<>>, Version5726, <<195, 169>>, <<240, 159, 144, 172>>,
      Repeat(97, ServerVersionLen - 1) }

\* byte strings without a NUL that are not UTF-8: a byte no sequence holds, a cut
\* sequence, a stray continuation, an overlong form, a surrogate
InvalidStrings ==
    { <<255>>, <<195>>, <<53, 128>>, <<195, 53>>, <<224, 128, 128>>,
      <<237, 160, 128>> }

RECURSIVE SeqsUpTo(_, _)
SeqsUpTo(S, n) ==
    IF n = 0 THEN {<<>>}
    ELSE SeqsUpTo(S, n - 1)
           \cup {Append(s, x) : s \in {t \in SeqsUpTo(S, n - 1) : Len(t) = n - 1}, x \in S}

Trailings == SeqsUpTo({0, 7}, MaxTrailing)

\* the body of the round-trip scenario: version 4, "5.7.26-log", 1000, 19
CanonicalBody == Body(4, Version5726, 0, <<0, 1000>>, 19, <<>>, FixedBodyLen)

\* bodies laid out as a FormatDescriptionEvent body whose string is UTF-8
WellFormedBodies ==
    { Body(v, sv, fill, ts, chl, tr, FixedBodyLen + Len(tr)) :
        v \in {4, 258}, sv \in ValidStrings, fill \in {0, 255},
        ts \in {<<0, 1000>>, <<258, 772>>}, chl \in {19, 255}, tr \in Trailings }

\* bodies with a NUL in the field after bytes that are not UTF-8
NonUtf8Bodies ==
    { Body(4, sv, 0, <<0, 1000>>, 19, <<>>, FixedBodyLen) : sv \in InvalidStrings }

\* bodies whose 50-byte field holds no NUL
NoNulBodies ==
    { Body(4, Repeat(97, ServerVersionLen), 0, <<0, 1000>>, 19, tr, FixedBodyLen + Len(tr)) :
        tr \in Trailings }

\* bodies too short for the 57 fixed bytes
ShortBodies ==
    { Body(4, Version5726, 0, <<0, 1000>>, 19, <<>>, k) :
        k \in {0, 1, 2, 3, 51, 52, 53, 55, 56} }

MalformedBodies == NonUtf8Bodies \cup NoNulBodies \cup ShortBodies

AllBodies == WellFormedBodies \cup MalformedBodies

SmallBodies ==
    { CanonicalBody,
      Body(4, Version5726, 0, <<0, 1000>>, 19, <<>>, 0),
      Body(4, Version5726, 0, <<0, 1000>>, 19, <<>>, 3),
      Body(4, <<255>>, 0, <<0, 1000>>, 19, <<>>, FixedBodyLen),
      Body(4, Repeat(97, ServerVersionLen), 0, <<0, 1000>>, 19, <<>>, FixedBodyLen) }

\* header fields: all zero, all bytes distinct, all ones
ZeroHeader ==
    [timestamp |-> <<0, 0>>, server_id |-> <<0, 0>>, next_position |-> <<0, 0>>,
     flags |-> 0]

DistinctHeader ==
    [timestamp |-> <<258, 772>>, server_id |-> <<1286, 1800>>,
     next_position |-> <<2314, 2828>>, flags |-> 3342]

OnesHeader ==
    [timestamp |-> <<65535, 65535>>, server_id |-> <<65535, 65535>>,
     next_position |-> <<65535, 65535>>, flags |-> 65535]

Headers == {ZeroHeader, DistinctHeader, OnesHeader}

WrittenEvent(h, c, len, b) ==
    [ timestamp |-> h.timestamp, type_byte |-> c, server_id |-> h.server_id,
      event_length |-> len, next_position |-> h.next_position, flags |-> h.flags,
      body |-> b ]

\* the event_length of a well-formed event: 19 + the length of its body
LengthOf(b) == <<0, HeaderLen + Len(EncodeBody(b))>>

TypeBytes == (0..35) \cup {36, 128, 255}

\* one event per file: every type byte, every body, every header, and lengths that
\* are wrong (below 19, beyond the file, beyond 16 bits)
SingleEvents ==
    { WrittenEvent(DistinctHeader, c, LengthOf(b), b) : c \in TypeBytes, b \in SmallBodies }
    \cup { WrittenEvent(DistinctHeader, c, LengthOf(b), b) : c \in {15, 2}, b \in AllBodies }
    \cup { WrittenEvent(h, c, LengthOf(b), b) : h \in Headers, c \in {15, 2}, b \in SmallBodies }
    \cup { WrittenEvent(DistinctHeader, c, len, b) :
             c \in {15, 2},
             len \in { <<0, 0>>, <<0, 18>>, <<0, HeaderLen + FixedBodyLen + 5>>,
                       <<0, HeaderLen + 1>>, <<1, HeaderLen>>, <<65535, 65535>> },
             b \in { CanonicalBody, Body(4, Version5726, 0, <<0, 1000>>, 19, <<>>, 0) } }

\* the events of the files that hold several
StreamEvents ==
    { WrittenEvent(DistinctHeader, 15, LengthOf(CanonicalBody), CanonicalBody),
      WrittenEvent(ZeroHeader, 2, <<0, HeaderLen>>,
                   Body(4, Version5726, 0, <<0, 1000>>, 19, <<>>, 0)),
      WrittenEvent(OnesHeader, 255, <<0, HeaderLen + 3>>,
                   Body(4, Version5726, 0, <<0, 1000>>, 19, <<>>, 3)),
      WrittenEvent(DistinctHeader, 16, <<0, 18>>,
                   Body(4, Version5726, 0, <<0, 1000>>, 19, <<>>, 3)) }

Streams ==
    {<<>>} \cup { s \in SeqsUpTo(StreamEvents, MaxEvents) : Len(s) >= 2 }

\* the first four bytes of a file: the magic, the magic with one byte changed, zeros
Magics ==
    { Magic, <<255, 98, 105, 110>>, <<254, 99, 105, 110>>, <<254, 98, 104, 110>>,
      <<254, 98, 105, 111>>, <<0, 0, 0, 0>> }

\* the files: the magic and the events, whole or cut short at the end; other first
\* four bytes; fewer than four bytes
Files ==
    { [written |-> <<e>>, bytes |-> Magic \o EncodeEvent(e)] : e \in SingleEvents }
    \cup { [written |-> s, bytes |-> Take(Magic \o EncodeAll(s), Len(Magic \o EncodeAll(s)) - d)] :
             s \in Streams, d \in {0, 1, HeaderLen + 1} }
    \cup { [written |-> <<e>>, bytes |-> Take(Magic \o EncodeEvent(e), Len(Magic \o EncodeEvent(e)) - d)] :
             e \in { WrittenEvent(h, 15, LengthOf(CanonicalBody), CanonicalBody) : h \in Headers },
             d \in {1, FixedBodyLen, FixedBodyLen + 1, FixedBodyLen + HeaderLen} }
    \cup { [written |-> s, bytes |-> m \o EncodeAll(s)] :
             m \in Magics,
             s \in {<<>>, <<WrittenEvent(DistinctHeader, 15, LengthOf(CanonicalBody), CanonicalBody)>>} }
    \cup { [written |-> <<>>, bytes |-> Take(m, n)] : m \in Magics, n \in 0..(MagicLen - 1) }

---------------------------------------------------------------------------
(* The state machine *)

NoBinlogFile ==
    [kind |-> "None", magic_number_bytes |-> <<>>, event_set_start_offset |-> <<>>]

\* a u64 below 2^16, and the offsets a caller passes: the position, and a number
\* above 2^32 ending in the position
U64(n) == <<0, 0, 0, n>>

Offsets(p) == {U64(p), <<1, 2, 3, p>>}

Init ==
    /\ overflow_checks \in BOOLEAN
    /\ \E f \in Files : written = f.written /\ source = f.bytes
    /\ pos = 0
    /\ binlog_file = NoBinlogFile
    /\ calls = <<>>
    /\ event_data = <<>>

\* a panic ended the process
Crashed ==
    \/ calls # <<>> /\ calls[Len(calls)].result.kind = "Panic"
    \/ event_data # <<>> /\ event_data[1].result.kind = "Panic"

\* BinlogFile::from_reader(reader), the reader at the start of the source
FromReader ==
    /\ binlog_file.kind = "None"
    /\ calls = <<>>
    /\ pos = 0
    /\ binlog_file' = from_reader(source)
    /\ pos' \in read_exact_positions(source, pos, MagicLen)
    /\ UNCHANGED <<overflow_checks, written, source, calls, event_data>>

\* Event::parse(&mut reader, o): on a reader from_reader accepted, or on a reader
\* never given to from_reader (as the test of event.rs does)
Parse(o) ==
    /\ ~Crashed
    /\ binlog_file.kind \in {"None", "Ok"}
    /\ Len(calls) < MaxCalls
    /\ calls' = Append(calls, [ at |-> pos, offset |-> o,
                                result |-> parse(source, pos, o, overflow_checks) ])
    /\ pos' \in positions_after(source, pos, overflow_checks)
    /\ UNCHANGED <<overflow_checks, written, source, binlog_file, event_data>>

\* Event::parse_event_data_by_type_code(event.type_code(), event.data()) for the
\* event the i-th call returned
ParseEventData(i) ==
    /\ ~Crashed
    /\ calls[i].result.kind = "Ok"
    /\ LET e == calls[i].result.event[1]
       IN  event_data' =
             << [ type_code |-> type_code(e), data |-> data(e),
                  result |-> parse_event_data_by_type_code(type_code(e), data(e)) ] >>
    /\ UNCHANGED <<overflow_checks, written, source, pos, binlog_file, calls>>

Next ==
    \/ FromReader
    \/ \E o \in Offsets(pos) : Parse(o)
    \/ \E i \in 1..Len(calls) : ParseEventData(i)

Spec == Init /\ [][Next]_vars

---------------------------------------------------------------------------
(* What the claims speak of *)

\* the table of type codes as documented: code b is the (b + 1)-th name
DocumentedTable ==
    << "UnknownEvent", "StartEventV3", "QueryEvent", "StopEvent", "RotateEvent",
       "IntvarEvent", "LoadEvent", "SlaveEvent", "CreateFileEvent",
       "AppendBlockEvent", "ExecLoadEvent", "DeleteFileEvent", "NewLoadEvent",
       "RandEvent", "UserVarEvent", "FormatDescriptionEvent", "XidEvent",
       "BeginLoadQueryEvent", "ExecuteLoadQueryEvent", "TableMapEvent",
       "PreGaWriteRowsEvent", "PreGaUpdateRowsEvent", "PreGaDeleteRowsEvent",
       "WriteRowsEventV1", "UpdateRowsEventV1", "DeleteRowsEventV1",
       "IncidentEvent", "HeartbeatLogEvent", "IgnorableLogEvent",
       "RowsQueryLogEvent", "WriteRowsEventV2", "UpdateRowsEventV2",
       "DeleteRowsEventV2", "GtidLogEvent", "AnonymousGtidLogEvent",
       "PreviousGtidsLogEvent" >>

DocumentedTypeCode(b) ==
    IF b \in 0..35 THEN DocumentedTable[b + 1] ELSE "UnknownEvent"

\* where the header of the i-th written event starts in the file
StartOf(i) == MagicLen + Len(EncodeAll(SubSeq(written, 1, i - 1)))

\* the bytes the writer laid out after the header of the i-th written event
Following(i) ==
    EncodeBody(written[i].body) \o EncodeAll(SubSeq(written, i + 1, Len(written)))

\* the header of the i-th written event is whole in the source
HeaderWhole(i) == StartOf(i) + HeaderLen <= Len(source)

\* the i-th written event declares 19 + the length of its body
LengthOk(i) == written[i].event_length = LengthOf(written[i].body)

\* a body laid out in full: the field holds a NUL, the 57 fixed bytes are there
LaidOut(b) ==
    /\ Len(b.server_version) < ServerVersionLen
    /\ b.keep = FixedBodyLen + Len(b.trailing)

\* the four values a laid-out body holds
FieldsOf(b) ==
    [ binlog_version |-> b.binlog_version, server_version |-> b.server_version,
      create_timestamp |-> b.create_timestamp,
      common_header_len |-> b.common_header_len ]

\* the k-th call read the header of the i-th written event
Reads(k, i) == calls[k].at = StartOf(i)

\* the event the k-th call returned
Returned(k) == calls[k].result.event[1]

---------------------------------------------------------------------------
(* C1 *)

\* C1: a call of Event::parse at the header of a written event with fields T, C, S,
\* L >= 19, P, F, of which the L - 19 following bytes are in the source, returns Ok;
\* the event's accessors give T, the documented type of C, L, P (as u64), F and the
\* offset the caller passed, its server_id is S, and data() is exactly those L - 19
\* bytes.
C1_ParseReproducesEvent ==
    \A k \in 1..Len(calls) : \A i \in 1..Len(written) :
        LET e == written[i]
            L == e.event_length
        IN  ( /\ Reads(k, i)
              /\ L[1] = 0
              /\ L[2] >= 19
              /\ StartOf(i) + L[2] <= Len(source) )
            => /\ calls[k].result.kind = "Ok"
               /\ timestamp(Returned(k)) = e.timestamp
               /\ type_code(Returned(k)) = DocumentedTypeCode(e.type_byte)
               /\ Returned(k).server_id = e.server_id
               /\ event_length(Returned(k)) = L
               /\ next_position(Returned(k)) = <<0, 0, e.next_position[1], e.next_position[2]>>
               /\ flags(Returned(k)) = e.flags
               /\ offset(Returned(k)) = calls[k].offset
               /\ data(Returned(k)) = Take(Following(i), L[2] - 19)
               /\ Len(data(Returned(k))) = L[2] - 19

\* an event with all-ones header fields and a 3-byte body, parsed as the second of a
\* stream with an offset above 2^32
C1_Witness ==
    \E k \in 1..Len(calls) :
        /\ Len(written) >= 2
        /\ Reads(k, 2)
        /\ written[2].timestamp = <<65535, 65535>>
        /\ written[2].event_length = <<0, 22>>
        /\ calls[k].offset[1] = 1
        /\ calls[k].result.kind = "Ok"
        /\ Len(data(Returned(k))) = 3

---------------------------------------------------------------------------
(* C2 *)

\* C2: a call of Event::parse at a whole header whose event_length is below 19
\* returns an error result (it does not panic, and no buffer of a wrapped length is
\* read into).
C2_ShortLengthIsAnError ==
    \A k \in 1..Len(calls) : \A i \in 1..Len(written) :
        ( /\ Reads(k, i)
          /\ HeaderWhole(i)
          /\ written[i].event_length[1] = 0
          /\ written[i].event_length[2] < 19 )
        => calls[k].result.kind = "Io"

---------------------------------------------------------------------------
(* C3 *)

\* C3: a call of Event::parse on a truncated source returns an error result: when
\* fewer than 19 bytes remain, and when the header is whole, declares L >= 19, and
\* fewer than L - 19 bytes follow it.
C3_TruncationIsAnError ==
    /\ \A k \in 1..Len(calls) :
         calls[k].at + 19 > Len(source) => calls[k].result.kind = "Io"
    /\ \A k \in 1..Len(calls) : \A i \in 1..Len(written) :
         LET L == written[i].event_length
         IN  ( /\ Reads(k, i)
               /\ HeaderWhole(i)
               /\ L[1] > 0 \/ L[2] >= 19
               /\ L[1] > 0 \/ StartOf(i) + L[2] > Len(source) )
             => calls[k].result.kind = "Io"

---------------------------------------------------------------------------
(* C4 *)

\* C4: the result of from_reader is decided by the first bytes of the source: Ok
\* with event_set_start_offset 4 iff at least 4 bytes are there and are FE 62 69 6E;
\* BadMagic with exactly the 4 bytes read if they differ; an I/O error, not
\* BadMagic, if fewer than 4 bytes are there.
C4_OpenDecidedByFirstBytes ==
    binlog_file.kind # "None" =>
        /\ binlog_file.kind = "Ok"
             <=> (Len(source) >= 4 /\ SubSeq(source, 1, 4) = <<254, 98, 105, 110>>)
        /\ binlog_file.kind = "Ok" => binlog_file.event_set_start_offset = <<4>>
        /\ (Len(source) >= 4 /\ SubSeq(source, 1, 4) # <<254, 98, 105, 110>>)
             => /\ binlog_file.kind = "BadMagic"
                /\ binlog_file.magic_number_bytes = SubSeq(source, 1, 4)
        /\ Len(source) < 4 => binlog_file.kind = "Io"

\* a file whose first four bytes differ from the magic in the last byte only
C4_Witness ==
    /\ Len(source) > 4
    /\ binlog_file.kind = "BadMagic"
    /\ binlog_file.magic_number_bytes = <<254, 98, 105, 111>>

---------------------------------------------------------------------------
(* C5 *)

\* the decoded bytes are the body of a written event
DecodedBodyOf(i) == event_data[1].data = EncodeBody(written[i].body)

\* C5: parse_event_data_by_type_code of a FormatDescriptionEvent whose body is
\* malformed (no NUL in the 50-byte window, bytes before the NUL that are not
\* UTF-8, or fewer than the 57 fixed bytes) returns an error result, not a panic.
C5_MalformedBodyIsAnError ==
    \A i \in 1..Len(written) :
        ( /\ event_data # <<>>
          /\ event_data[1].type_code = "FormatDescriptionEvent"
          /\ DecodedBodyOf(i)
          /\ written[i].body \in MalformedBodies )
        => event_data[1].result.kind = "Err"

---------------------------------------------------------------------------
(* C6 *)

\* C6 as stated: parse_event_data_by_type_code of a FormatDescriptionEvent body laid
\* out as u16 binlog_version, a 50-byte field containing a NUL, u32
\* create_timestamp, u8 common_header_len and trailing bytes returns Ok(Some(..))
\* with those values, server_version being the bytes before the first NUL.
C6_LaidOutBodyDecodes ==
    \A i \in 1..Len(written) :
        ( /\ event_data # <<>>
          /\ event_data[1].type_code = "FormatDescriptionEvent"
          /\ DecodedBodyOf(i)
          /\ LaidOut(written[i].body) )
        => event_data[1].result = DataResult("Ok", <<FieldsOf(written[i].body)>>)

\* C6 as amended: the same, for the bodies whose bytes before the first NUL are
\* valid UTF-8; create_timestamp and common_header_len come from offsets 52 and 56
\* whatever the string's length, the filler after the NUL and the trailing bytes.
C6_LaidOutUtf8BodyDecodes ==
    \A i \in 1..Len(written) :
        ( /\ event_data # <<>>
          /\ event_data[1].type_code = "FormatDescriptionEvent"
          /\ DecodedBodyOf(i)
          /\ LaidOut(written[i].body)
          /\ written[i].body.server_version \in ValidStrings )
        => event_data[1].result = DataResult("Ok", <<FieldsOf(written[i].body)>>)

\* version 4, "5.7.26-log", 1000, 19, with filler bytes 255 after the NUL
C6_Witness ==
    /\ event_data # <<>>
    /\ event_data[1].type_code = "FormatDescriptionEvent"
    /\ written # <<>>
    /\ DecodedBodyOf(1)
    /\ written[1].body.fill = 255
    /\ event_data[1].result =
         DataResult("Ok", << [ binlog_version |-> 4, server_version |-> Version5726,
                               create_timestamp |-> <<0, 1000>>,
                               common_header_len |-> 19 ] >>)

---------------------------------------------------------------------------
(* C7 *)

\* the file is the magic and one well-formed FormatDescriptionEvent
MinimalFile ==
    /\ Len(written) = 1
    /\ written[1].type_byte = 15
    /\ LengthOk(1)
    /\ LaidOut(written[1].body)
    /\ written[1].body.server_version \in ValidStrings
    /\ source = <<254, 98, 105, 110>> \o EncodeEvent(written[1])

\* C7: on a file that is the magic and one well-formed event of type byte 15 and
\* event_length 19 + body length, from_reader succeeds, the first Event::parse
\* returns an event of type FormatDescriptionEvent whose data() is the body, every
\* later call fails with an I/O error (the file holds one event), and decoding the
\* event gives the fields of the body.
C7_MinimalFileParses ==
    (MinimalFile /\ binlog_file.kind # "None") =>
        /\ binlog_file.kind = "Ok"
        /\ calls # <<>> =>
             /\ calls[1].result.kind = "Ok"
             /\ type_code(Returned(1)) = "FormatDescriptionEvent"
             /\ data(Returned(1)) = EncodeBody(written[1].body)
        /\ \A k \in 2..Len(calls) : calls[k].result.kind = "Io"
        /\ event_data # <<>> =>
             /\ event_data[1].type_code = "FormatDescriptionEvent"
             /\ event_data[1].result = DataResult("Ok", <<FieldsOf(written[1].body)>>)

\* the file opened, the event parsed and decoded, and the end of the file met
C7_Witness ==
    /\ MinimalFile
    /\ binlog_file.kind = "Ok"
    /\ Len(calls) = 2
    /\ calls[2].result.kind = "Io"
    /\ event_data # <<>>
    /\ event_data[1].result.kind = "Ok"
    /\ event_data[1].result.some # <<>>

---------------------------------------------------------------------------
(* C8 *)

FromByteMatchesTable == \A b \in 0..255 : from_byte(b) = DocumentedTypeCode(b)

\* C8: TypeCode::from_byte is total on 0..255; a byte 0..35 gives the documented
\* name of that code and a byte 36..255 gives UnknownEvent, and that is the type
\* of every event Event::parse returns for a header with that byte.
C8_FromByteIsTheTable ==
    /\ FromByteMatchesTable
    /\ \A k \in 1..Len(calls) : \A i \in 1..Len(written) :
         (Reads(k, i) /\ calls[k].result.kind = "Ok")
         => type_code(Returned(k)) = DocumentedTypeCode(written[i].type_byte)

\* an event with type byte 35, the last named code, parsed
C8_Witness ==
    \E k \in 1..Len(calls) :
        /\ written # <<>>
        /\ Reads(k, 1)
        /\ written[1].type_byte = 35
        /\ calls[k].result.kind = "Ok"
        /\ type_code(Returned(k)) = "PreviousGtidsLogEvent"

---------------------------------------------------------------------------
(* C9 *)

\* C9: parse_event_data_by_type_code of any type code other than
\* FormatDescriptionEvent returns Ok(None), whatever the body.
C9_OtherTypesGiveNone ==
    (event_data # <<>> /\ event_data[1].type_code # "FormatDescriptionEvent")
    => event_data[1].result = DataResult("Ok", <<>>)

\* a QueryEvent with an empty body decoded
C9_Witness ==
    /\ event_data # <<>>
    /\ event_data[1].type_code = "QueryEvent"
    /\ event_data[1].data = <<>>
    /\ event_data[1].result = DataResult("Ok", <<>>)

---------------------------------------------------------------------------
(* C10 *)

\* the reader's position after the k-th call: where the next call started, or
\* where the reader is now
PositionAfter(k) == IF k < Len(calls) THEN calls[k + 1].at ELSE pos

\* the file is the magic and whole well-formed events
WellFormedStream ==
    /\ \A i \in 1..Len(written) : LengthOk(i)
    /\ source = <<254, 98, 105, 110>> \o EncodeAll(written)

\* C10: a successful Event::parse leaves the reader exactly event_length bytes
\* further; two calls at the same position with the same offset argument return
\* the same result; and on a source of N concatenated well-formed events (read
\* from the first event on) the k-th call returns the k-th event, with the offset
\* passed to that call, for k <= N, and an I/O error after them.
C10_ParseAdvancesByEventLength ==
    /\ \A j, k \in 1..Len(calls) :
         (calls[j].at = calls[k].at /\ calls[j].offset = calls[k].offset)
         => calls[j].result = calls[k].result
    /\ \A k \in 1..Len(calls) :
         calls[k].result.kind = "Ok"
         => /\ event_length(Returned(k))[1] = 0
            /\ PositionAfter(k) = calls[k].at + event_length(Returned(k))[2]
    /\ (WellFormedStream /\ binlog_file.kind = "Ok")
       => \A k \in 1..Len(calls) :
            IF k <= Len(written)
            THEN /\ Reads(k, k)
                 /\ calls[k].result.kind = "Ok"
                 /\ timestamp(Returned(k)) = written[k].timestamp
                 /\ event_length(Returned(k)) = written[k].event_length
                 /\ data(Returned(k)) = EncodeBody(written[k].body)
                 /\ offset(Returned(k)) = calls[k].offset
            ELSE calls[k].result.kind = "Io"

\* two events read one after the other from a stream of two
C10_Witness ==
    /\ WellFormedStream
    /\ binlog_file.kind = "Ok"
    /\ Len(written) = 2
    /\ Len(calls) >= 2
    /\ calls[2].result.kind = "Ok"
    /\ Len(data(Returned(1))) > 0
    /\ pos = Len(source)

===========================================================================
